---------------------------- MODULE Spec2Model ----------------------------
(***************************************************************************)
(* Host-side client of the ROME serial protocol (software/src):            *)
(*   device.rs    line transport, receive(), sync(), check()                *)
(*   data_ops.rs  read_data / write_data                                    *)
(*   main.rs      the Data Read / Data Write (with verification) commands   *)
(*                                                                         *)
(* The program is single threaded and blocks in port.read / port.write.    *)
(* One action is one stretch of code from one port call to the next.       *)
(* Bytes are one-character strings; a line is a sequence of bytes.         *)
(* The serial link is `wire`: what the device has put on the line and the  *)
(* host has not read yet.  Besides bytes it holds WAIT (one clock tick of  *)
(* silence), ZERO (a read that returns 0 bytes) and IOERR (a read that     *)
(* fails with an I/O error other than TimedOut).  An empty wire is silence.*)
(***************************************************************************)
EXTENDS Integers, Sequences, FiniteSets, TLC

VARIABLES
    pc,               \* control location of the host program
    ctx,              \* the command whose response receive() is reading
    wire,             \* device -> host: bytes and silence not yet read
    sent,             \* host -> device: every command written, in order
    buffer,           \* receive_line_raw's accumulation buffer
    limit,            \* receive_line_raw's limit argument
    now,              \* the clock, in ticks
    waited,           \* ticks the current port.read has been blocked
    port_timeout,     \* the read timeout currently set on the port
    attempt,          \* which sync() call of check() is running (1 or 2)
    expected_payload, \* sync: the token of the ping just sent
    sync_deadline,    \* sync: deadline of the running handshake
    end_time,         \* receive_with_timeout: its deadline
    sync_results,     \* history: what each sync() call returned
    last_line,        \* history: last line receive_line_raw completed
    call_start,       \* history: the wire and line count at the last send
    receive_results,  \* history: what each receive() call returned
    consumed,         \* history: number of lines receive_line_raw completed
    budget,           \* out-of-band lines the device may still emit
    env,              \* the device's behaviour in this run
    mem,              \* device memory: bytes written so far
    cmd,              \* the main.rs command being run and its arguments
    segment_number,   \* read_data: position of the segment iterator
    chunks,           \* read_data: the chunks yielded so far
    address,          \* write_data: the address cursor
    written,          \* write_data: number of data bytes acknowledged
    phase,            \* main.rs Data Write: "write" or "verify"
    result            \* what the operation returned

vars == <<pc, ctx, wire, sent, buffer, limit, now, waited, port_timeout,
          attempt, expected_payload, sync_deadline, end_time, sync_results,
          last_line,
          call_start, receive_results, consumed, budget, env, mem, cmd,
          segment_number, chunks, address, written, phase, result>>

dataVars == <<cmd, segment_number, chunks, address, written, phase>>

----------------------------------------------------------------------------
(* Bounds of the model. *)

\* out-of-band lines the device may emit in one session
MaxJunk == 2
\* longest input of a Data Write command, in bytes
MaxData == 3
\* largest size of a Data Read command (besides the whole memory)
MaxSize == 4
\* largest segment size (--buffer-size) tried
MaxBuf == 3
\* clock reading when the session starts
StartTime == 8
\* last position of a response at which the link may replace a byte
MaxBadPos == 9
\* longest --test-timeout tried, in ticks
MaxTestTimeout == 5

(* Program constants. *)

\* device.rs:14  default_value = "1s"   (one tick is half a second)
Timeout == 2
\* device.rs:21  default_value = "2s"
InitialTimeout == 4
\* device.rs:33  default_value = "2s"
SyncTimeout == 4
\* device.rs:158 receive_line_raw(&mut receive_buffer, 64)
SyncLineLimit == 64
\* device.rs:184 self.receive(24)
VersionLimit == 24
\* data_ops.rs:99 device.receive(16)
WriteLimit == 16
\* device.rs:198 self.receive(64)
EnableLimit == 64
\* device.rs:209 memory_size() returns 0x10000
MemorySize == 65536
\* main.rs:193: limit of the self-test's response line
TestLimit == 128
\* the range of u16 (offsets and addresses) and of u8 (segment sizes)
U16 == 65536
U8 == 256

----------------------------------------------------------------------------
(* Bytes and text. *)

NL == "\n"
WAIT == "<wait>"
ZERO == "<zero>"
IOERR == "<ioerr>"

IsByte(e) == e \notin {WAIT, ZERO, IOERR}

RECURSIVE Concat(_)
Concat(ss) == IF ss = <<>> THEN <<>> ELSE Head(ss) \o Concat(Tail(ss))

Repeat(c, n) == [i \in 1..n |-> c]

StartsWith(s, p) == Len(s) >= Len(p) /\ SubSeq(s, 1, Len(p)) = p

DecDigits == <<"0", "1", "2", "3", "4", "5", "6", "7", "8", "9">>

\* format!("{}", n) of an unsigned integer
RECURSIVE ToDecimal(_)
ToDecimal(n) ==
    IF n < 10 THEN <<DecDigits[n + 1]>>
    ELSE ToDecimal(n \div 10) \o <<DecDigits[(n % 10) + 1]>>

HexDigits == <<"0", "1", "2", "3", "4", "5", "6", "7",
               "8", "9", "A", "B", "C", "D", "E", "F">>

LowerHexDigits == <<"0", "1", "2", "3", "4", "5", "6", "7",
                    "8", "9", "a", "b", "c", "d", "e", "f">>

RECURSIVE HexRaw(_)
HexRaw(n) ==
    IF n < 16 THEN <<HexDigits[n + 1]>>
    ELSE HexRaw(n \div 16) \o <<HexDigits[(n % 16) + 1]>>

\* format!("{:0wX}", n): upper-case hex, zero-padded to at least w digits
Hex(n, w) ==
    LET d == HexRaw(n)
    IN  IF Len(d) >= w THEN d ELSE Repeat("0", w - Len(d)) \o d

\* format!("{:02X}", b) for every byte of a slice, in order
HexBytes(bs) ==
    [i \in 1..(2 * Len(bs)) |->
        Hex(bs[(i + 1) \div 2], 2)[IF i % 2 = 1 THEN 1 ELSE 2]]

IsHexDigit(c) ==
    \E i \in 1..16 : HexDigits[i] = c \/ LowerHexDigits[i] = c

\* char::to_digit(16)
DigitValue(c) ==
    CHOOSE v \in 0..15 : HexDigits[v + 1] = c \/ LowerHexDigits[v + 1] = c

RECURSIVE DigitsValue(_, _)
DigitsValue(ds, acc) ==
    IF ds = <<>> THEN acc
    ELSE DigitsValue(Tail(ds), 16 * acc + DigitValue(Head(ds)))

\* u8::from_str_radix(src, 16), -1 for Err: an optional '+' sign, then one or
\* more hex digits of either case; a value above 255 is an error
FromStrRadix16(src) ==
    LET digits == IF src # <<>> /\ Head(src) = "+" THEN Tail(src) ELSE src
    IN  IF digits = <<>> \/ \E i \in DOMAIN digits : ~IsHexDigit(digits[i])
        THEN -1
        ELSE IF DigitsValue(digits, 0) >= U8 THEN -1
        ELSE DigitsValue(digits, 0)

Min(a, b) == IF a < b THEN a ELSE b

WhiteSpace == {" ", "\t", "\r", NL}

RECURSIVE TrimStart(_)
TrimStart(s) ==
    IF s # <<>> /\ Head(s) \in WhiteSpace THEN TrimStart(Tail(s)) ELSE s

RECURSIVE TrimEnd(_)
TrimEnd(s) ==
    IF s # <<>> /\ s[Len(s)] \in WhiteSpace
    THEN TrimEnd(SubSeq(s, 1, Len(s) - 1)) ELSE s

\* str::trim
Trim(s) == TrimEnd(TrimStart(s))

----------------------------------------------------------------------------
(* Results: anyhow::Result.  kind names the root cause of an error. *)

Ok == [ok |-> TRUE, kind |-> "Ok", msg |-> <<>>]
Err(k, m) == [ok |-> FALSE, kind |-> k, msg |-> m]
Running == [ok |-> FALSE, kind |-> "Running", msg |-> <<>>]

\* is_timeout without the test of the error kind (line 46)
is_timeout_any_io(e) ==
    e.kind \in {"ReadTimedOut", "WriteTimedOut", "ReadIo", "WriteIo"}

\* device.rs:44-50: the root cause is an io::Error of kind TimedOut
is_timeout(e) == e.kind \in {"ReadTimedOut", "WriteTimedOut"}


----------------------------------------------------------------------------
(* The device, as the host sees it on the wire (spec section 6).           *)

\* the device's reading of a hex field of a command
HexValue(ds) == DigitsValue(ds, 0)

\* the limit the host passes to the line read that follows a command
ReplyLimit(command) ==
    CASE Head(command) = NL -> SyncLineLimit
      [] Head(command) = "V" -> VersionLimit
      [] Head(command) = "R" -> 2 + 2 * HexValue(SubSeq(command, 6, 7))
      [] Head(command) = "E" -> EnableLimit
      [] Head(command) = "T" -> TestLimit
      [] OTHER -> WriteLimit

\* the sync reply: 'p' and the token echoed verbatim
Pong(tok) == <<"p">> \o tok \o <<NL>>

\* a line of n bytes starting with '#'
DebugLine(n) == Repeat("#", n) \o <<NL>>

\* a line whose bytes arrive one tick apart: 5 ticks pass, no read times out
SlowLine == <<"x", WAIT, "x", WAIT, ZERO, "x", WAIT, "x", WAIT, "x", WAIT, NL>>

\* lines the device may emit that are not the response to the command
JunkLines(command, tok) ==
    { <<NL>>,
      <<"#", "d", NL>>,
      <<"!", " ", "e", " ", NL>>,
      <<"p">> \o tok \o <<"0", NL>>,
      <<"p">> \o SubSeq(tok, 1, Len(tok) - 1) \o <<NL>>,
      DebugLine(ReplyLimit(command)),
      DebugLine(ReplyLimit(command) + 1),
      SlowLine,
      <<WAIT, WAIT, WAIT>> }

\* the byte the device holds at address a: what was written there, and
\* the low byte of the address where nothing was
MemAt(a) == IF a \in DOMAIN mem THEN mem[a] ELSE a % U8

\* R<AAAA><LL>: the bytes at AAAA.. as 2 x LL hex digits
DeviceRead(command) ==
    LET a == HexValue(SubSeq(command, 2, 5))
        n == HexValue(SubSeq(command, 6, 7))
    IN  <<"R">> \o HexBytes([i \in 1..n |-> MemAt((a + i - 1) % U16)]) \o <<NL>>

\* the bytes a W<AAAA><hex bytes> command carries
WritePayload(command) ==
    LET hex == SubSeq(command, 6, Len(command) - 1)
    IN  [i \in 1..(Len(hex) \div 2) |-> HexValue(SubSeq(hex, 2 * i - 1, 2 * i))]

\* W<AAAA><hex bytes>: start and end address echoed
DeviceWrite(command) ==
    LET a == HexValue(SubSeq(command, 2, 5))
    IN  <<"W">> \o Hex(a, 4) \o Hex((a + Len(WritePayload(command))) % U16, 4)
        \o <<NL>>

\* what a failing memory keeps of the bytes d: the last one comes out wrong
Spoiled(d) == [d EXCEPT ![Len(d)] = (d[Len(d)] + 1) % U8]

\* the device's memory after it has handled `command`
DeviceStore(command) ==
    IF Head(command) # "W" THEN mem
    ELSE LET a == HexValue(SubSeq(command, 2, 5))
             d == IF env = "lossy" /\ WritePayload(command) # <<>>
                  THEN Spoiled(WritePayload(command))
                  ELSE WritePayload(command)
             touched == {(a + i - 1) % U16 : i \in 1..Len(d)}
         IN  [x \in DOMAIN mem \cup touched |->
                 IF x \in touched
                 THEN d[CHOOSE i \in 1..Len(d) : (a + i - 1) % U16 = x]
                 ELSE mem[x]]

\* bytes that are no hex digits
BadBytes == {"+", "-", "G", " "}

\* a response line damaged on the way: one payload byte replaced, the last
\* byte lost, or one or two bytes too many
Corruptions(reply) ==
    { [reply EXCEPT ![i] = c] :
        i \in 2..Min(Len(reply) - 1, MaxBadPos), c \in BadBytes }
    \cup { SubSeq(reply, 1, Len(reply) - 2) \o <<NL>>,
           SubSeq(reply, 1, Len(reply) - 1) \o <<"0", NL>>,
           SubSeq(reply, 1, Len(reply) - 1) \o <<"0", "0", NL>> }

\* the reply with the hex letters of its fields in lower case
LowerCase(reply) ==
    [i \in DOMAIN reply |->
        IF i > 1 /\ \E v \in 11..16 : HexDigits[v] = reply[i]
        THEN LowerHexDigits[CHOOSE v \in 11..16 : HexDigits[v] = reply[i]]
        ELSE reply[i]]

\* the reply grown by '0' bytes to two bytes more than the limit of the read
\* that follows `command`
Overlong(command, reply) ==
    SubSeq(reply, 1, Len(reply) - 1)
    \o Repeat("0", ReplyLimit(command) + 3 - Len(reply)) \o <<NL>>

\* every way the device or the link may spoil the response to `command`
Damaged(command, reply) ==
    Corruptions(reply)
    \cup { Overlong(command, reply), LowerCase(reply),
           [reply EXCEPT ![1] = "X"], <<"!", "e", NL>> }

\* how the exchange ends: silence, the response, or a broken link
Finals(command) ==
    CASE Head(command) = NL ->
           { <<>>, Pong(SubSeq(command, 3, Len(command) - 1)), <<IOERR>> }
      [] Head(command) = "V" ->
           { <<>>, <<"V", "R", "O", "M", "E", "1", NL>>,
             <<"V", "R", "O", "M", NL>>, <<"v", "R", "O", "M", "E", NL>>,
             <<IOERR>> }
      [] Head(command) = "R" ->
           IF env = "corrupt"
           THEN {DeviceRead(command)} \cup Damaged(command, DeviceRead(command))
           ELSE {DeviceRead(command)}
      [] Head(command) = "E" -> { <<"E", "O", "K", NL>> }
      [] Head(command) = "T" ->
           { <<>>, <<"T", "O", "K", NL>>, <<"T", "F", "A", "I", "L", NL>>,
             <<"T", "O", WAIT, WAIT, "K", NL>>, <<"t", "o", "k", NL>>,
             <<IOERR>> }
      [] OTHER ->
           IF env = "corrupt"
           THEN {DeviceWrite(command)} \cup Damaged(command, DeviceWrite(command))
           ELSE {DeviceWrite(command)}

\* everything the device may put on the wire after `command`, using at most
\* n out-of-band lines
Replies(command, tok, n) ==
    { Concat(js) \o f : js \in [1..n -> JunkLines(command, tok)],
                        f \in Finals(command) }

\* bytes of an earlier session still in flight when the port is opened
StaleBytes ==
    { <<>>, Pong(ToDecimal(StartTime - 1)), <<"T", "O">> }

----------------------------------------------------------------------------
(* device.rs:71-81  Device::send                                           *)

SendOutcomes == IF budget > 0 THEN {"Ok", "WriteTimedOut", "WriteIo"} ELSE {"Ok"}

\* the port after a successful write of `command`: the command is on its way
\* and the device's reply (with n out-of-band lines) will arrive
send(command, n, reply) ==
    /\ sent' = Append(sent, command)
    /\ wire' = wire \o reply
    /\ budget' = budget - n
    /\ mem' = DeviceStore(command)
    /\ call_start' = [stream |-> wire \o reply, consumed |-> consumed]

----------------------------------------------------------------------------
(* Every continuation below assigns the host's own variables:              *)
(*   pc, ctx, buffer, limit, result, attempt, sync_results and dataVars.   *)

\* control moves to p; the line buffer and its limit are b and l
Goto(p, c, b, l) ==
    /\ pc' = p
    /\ ctx' = c
    /\ buffer' = b
    /\ limit' = l

\* the operation the session was started for returns r
Return(r) ==
    /\ Goto("done", ctx, buffer, limit)
    /\ result' = r

----------------------------------------------------------------------------
(* device.rs:174-193  Device::check                                        *)

\* check() returns r
CheckReturns(r) ==
    /\ Return(r)
    /\ UNCHANGED dataVars

\* lines 175-181: sync() returned r to check()
CheckAfterSync(r) ==
    IF attempt = 1
    THEN /\ IF ~r.ok /\ is_timeout(r)
            THEN Goto("sync_begin", ctx, buffer, limit) /\ attempt' = 2
            ELSE Goto("check_V", ctx, buffer, limit) /\ attempt' = 1
         /\ UNCHANGED result
         /\ UNCHANGED dataVars
    ELSE /\ attempt' = attempt
         /\ IF r.ok
            THEN /\ Goto("check_V", ctx, buffer, limit)
                 /\ UNCHANGED result
                 /\ UNCHANGED dataVars
            ELSE CheckReturns(r)

\* sync() returns r; the history keeps the result together with the clock,
\* the deadline, the receive buffer, the last command written and how many
\* commands had been written
SyncReturns(r) ==
    /\ sync_results' = Append(sync_results,
           [res |-> r, at |-> now, deadline |-> sync_deadline, line |-> buffer,
            ping |-> IF sent = <<>> THEN <<>> ELSE sent[Len(sent)],
            n |-> Len(sent)])
    /\ CheckAfterSync(r)

\* line 185: b"VROME"
VersionMarker == <<"V", "R", "O", "M", "E">>

\* lines 184-192: receive(24) returned r
CheckVersion(r) ==
    /\ UNCHANGED <<attempt, sync_results>>
    /\ IF ~r.ok
       THEN CheckReturns(r)
       ELSE IF StartsWith(r.msg, VersionMarker)
       THEN CheckReturns(Ok)
       ELSE CheckReturns(Err("ProtocolMismatch", r.msg))

----------------------------------------------------------------------------
(* device.rs:147-172  Device::sync                                         *)

\* line 148: the ping carrying the clock reading
SyncMessage == <<NL, "P">> \o ToDecimal(now) \o <<NL>>

\* line 155: message.trim().as_bytes()[1..]
ExpectedPayload(message) == Tail(Trim(message))

\* lines 148-155: send the ping, set the deadline
SyncSend ==
    /\ pc = "sync_begin"
    /\ \E o \in SendOutcomes :
         IF o = "Ok"
         THEN /\ \E n \in 0..budget :
                   \E reply \in Replies(SyncMessage, ExpectedPayload(SyncMessage), n) :
                      send(SyncMessage, n, reply)
              /\ sync_deadline' = now + SyncTimeout
              /\ expected_payload' = ExpectedPayload(SyncMessage)
              /\ Goto("sync", ctx, <<>>, SyncLineLimit)
              /\ UNCHANGED <<attempt, sync_results, result>>
              /\ UNCHANGED dataVars
         ELSE /\ SyncReturns(Err(o, <<>>))
              /\ budget' = budget - 1
              /\ UNCHANGED <<sent, wire, mem, call_start, sync_deadline, expected_payload>>
    /\ UNCHANGED <<now, waited, port_timeout, last_line, consumed, env, receive_results>>
    /\ UNCHANGED end_time

\* line 161 with a prefix test in place of the equality
SyncMatches_Prefix(line) ==
    /\ line # <<>>
    /\ Head(line) = "p"
    /\ StartsWith(Tail(line), expected_payload)

\* lines 160-161: is the line the reply to this ping?
SyncMatches(line) ==
    /\ line # <<>>
    /\ Head(line) = "p"
    /\ Tail(line) = expected_payload

\* lines 160-170: the loop body after receive_line_raw returned Ok
SyncLine ==
    IF SyncMatches(buffer)
    THEN SyncReturns(Ok)
    ELSE IF now > sync_deadline
         THEN SyncReturns(Err("SyncTimeout", <<>>))
         ELSE /\ Goto(pc, ctx, <<>>, limit)
              /\ UNCHANGED <<attempt, sync_results, result>>
              /\ UNCHANGED dataVars

\* line 183: send the version query
SendV ==
    /\ pc = "check_V"
    /\ \E o \in SendOutcomes :
         IF o = "Ok"
         THEN /\ \E n \in 0..budget :
                   \E reply \in Replies(<<"V", NL>>, expected_payload, n) :
                      send(<<"V", NL>>, n, reply)
              /\ Goto("receive", "V", <<>>, VersionLimit)
              /\ UNCHANGED result
              /\ UNCHANGED dataVars
         ELSE /\ CheckReturns(Err(o, <<>>))
              /\ budget' = budget - 1
              /\ UNCHANGED <<sent, wire, mem, call_start>>
    /\ UNCHANGED <<now, waited, port_timeout, last_line, consumed, env, receive_results>>
    /\ UNCHANGED <<attempt, sync_results, expected_payload, sync_deadline, end_time>>

----------------------------------------------------------------------------
(* main.rs:144-152 ExternalControlSettings::apply and device.rs:195-205    *)
(* Device::enable_external_control, run when a command has succeeded       *)

\* main.rs:145-151: the command's work is done
Apply ==
    IF cmd.no_external_control
    THEN Return(Ok)
    ELSE Goto("enable_external_control", ctx, buffer, limit) /\ UNCHANGED result

\* device.rs:196: send E
SendE ==
    /\ pc = "enable_external_control"
    /\ \E o \in SendOutcomes :
         IF o = "Ok"
         THEN /\ \E n \in 0..budget :
                   \E reply \in Replies(<<"E", NL>>, expected_payload, n) :
                      send(<<"E", NL>>, n, reply)
              /\ Goto("receive", "E", <<>>, EnableLimit)
              /\ UNCHANGED result
         ELSE /\ Return(Err(o, <<>>))
              /\ budget' = budget - 1
              /\ UNCHANGED <<sent, wire, mem, call_start>>
    /\ UNCHANGED dataVars
    /\ UNCHANGED <<attempt, sync_results, expected_payload, sync_deadline, end_time>>
    /\ UNCHANGED <<now, waited, port_timeout, last_line, consumed, env, receive_results>>

\* device.rs:198-204: receive(64) returned r
EnableResponse(r) ==
    /\ UNCHANGED dataVars
    /\ UNCHANGED <<attempt, sync_results>>
    /\ IF ~r.ok
       THEN Return(r)
       ELSE IF r.msg = <<"E", "O", "K">>
       THEN Return(Ok)
       ELSE Return(Err("UnexpectedResponse", r.msg))

----------------------------------------------------------------------------
(* main.rs:186-208  the Test command, and device.rs:136-145                *)
(* Device::receive_with_timeout                                            *)

\* main.rs:192-193: send T, then receive_with_timeout(128, test_timeout);
\* device.rs:137: end_time = Instant::now() + timeout
MainTest ==
    /\ pc = "main"
    /\ cmd.name = "test"
    /\ \E o \in SendOutcomes :
         IF o = "Ok"
         THEN /\ \E n \in 0..budget :
                   \E reply \in Replies(<<"T", NL>>, expected_payload, n) :
                      send(<<"T", NL>>, n, reply)
              /\ Goto("receive", "T", <<>>, TestLimit)
              /\ end_time' = now + cmd.test_timeout
              /\ UNCHANGED result
         ELSE /\ Return(Err(o, <<>>))
              /\ budget' = budget - 1
              /\ UNCHANGED <<sent, wire, mem, call_start, end_time>>
    /\ UNCHANGED dataVars
    /\ UNCHANGED <<attempt, sync_results, expected_payload, sync_deadline>>
    /\ UNCHANGED <<now, waited, port_timeout, last_line, consumed, env, receive_results>>

\* device.rs:141 without the is_timeout test
RetryReceive_AnyError(r) == ~r.ok /\ now < end_time

\* device.rs:141: Err(e) if is_timeout(&e) && Instant::now() < end_time
RetryReceive(r) == ~r.ok /\ is_timeout(r) /\ now < end_time

\* device.rs:140-143 and main.rs:193-207: receive(128) returned r
TestResponse(r) ==
    /\ UNCHANGED dataVars
    /\ UNCHANGED <<attempt, sync_results>>
    /\ IF RetryReceive(r)
       THEN Goto("receive", ctx, <<>>, limit) /\ UNCHANGED result
       ELSE IF ~r.ok
       THEN Return(r)
       ELSE IF r.msg = <<"T", "O", "K">>
       THEN Apply
       ELSE IF r.msg = <<"T", "F", "A", "I", "L">>
       THEN Return(Err("TestFailed", <<>>))
       ELSE Return(Err("UnexpectedResponse", r.msg))

----------------------------------------------------------------------------
(* data_ops.rs:26-75  read_data, and the loops of main.rs that consume it  *)

\* the DataReadRequest in force: the Data Read command's own (main.rs:244),
\* or the verification pass's (main.rs:307)
Request ==
    IF cmd.name = "read"
    THEN [offset |-> cmd.offset, size |-> cmd.size,
          buffer_size |-> cmd.buffer_size]
    ELSE [offset |-> cmd.offset, size |-> Len(cmd.data),
          buffer_size |-> cmd.verification_read_buffer_size]

\* line 30 with the bound off by one
ReadOutOfRange_Off(request) == request.size + request.offset > MemorySize + 1

\* line 30: (size + offset as usize) > device.memory_size()
ReadOutOfRange(request) == request.size + request.offset > MemorySize

\* line 34: size.div_ceil(buffer_size) as u16
NumSegments(request) ==
    ((request.size + request.buffer_size - 1) \div request.buffer_size) % U16

\* line 38: offset + segment_number * (buffer_size as u16), in u16
SegmentStartAddress(request, k) ==
    (request.offset + ((k * request.buffer_size) % U16)) % U16

\* line 39: size - (segment_start_address - offset) as usize
RemainingSize(request, k) ==
    request.size - ((SegmentStartAddress(request, k) - request.offset) % U16)

\* line 40: min(buffer_size, remaining_size) as u8
SegmentSize(request, k) ==
    Min(request.buffer_size, RemainingSize(request, k)) % U8

\* line 42 with the first segment asked for at every pull
ReadCommand_First(request, k) ==
    <<"R">> \o Hex(SegmentStartAddress(request, 0), 4)
            \o Hex(SegmentSize(request, 0), 2) \o <<NL>>

\* line 42: format!("R{:04X}{:02X}\n", segment_start_address, segment_size)
ReadCommand(request, k) ==
    <<"R">> \o Hex(SegmentStartAddress(request, k), 4)
            \o Hex(SegmentSize(request, k), 2) \o <<NL>>

\* lines 64-72: every two bytes of the payload through u8::from_str_radix
DecodePayload(payload) ==
    [i \in 1..(Len(payload) \div 2) |->
        FromStrRadix16(SubSeq(payload, 2 * i - 1, 2 * i))]

\* lines 30-34: read_data is called; nothing is sent yet
ReadDataCall ==
    IF ReadOutOfRange(Request)
    THEN /\ Return(Err("OutOfRange", <<>>))
         /\ UNCHANGED <<segment_number, chunks>>
    ELSE /\ Goto("read_next", ctx, buffer, limit)
         /\ segment_number' = 0
         /\ UNCHANGED <<chunks, result>>

\* main.rs:223-248: the Data Read command up to its first pull
MainRead ==
    /\ pc = "main"
    /\ cmd.name = "read"
    /\ IF cmd.size = 0
       THEN Return(Ok) /\ UNCHANGED <<segment_number, chunks>>
       ELSE IF cmd.buffer_size = 0
       THEN Return(Err("IllegalBufferSize", <<>>))
            /\ UNCHANGED <<segment_number, chunks>>
       ELSE ReadDataCall
    /\ UNCHANGED <<cmd, address, written, phase>>
    /\ UNCHANGED <<attempt, sync_results, expected_payload, sync_deadline, end_time>>
    /\ UNCHANGED <<wire, sent, now, waited, port_timeout, last_line, consumed,
                   budget, env, mem, call_start, receive_results>>

\* lines 36-43: the consumer pulls the next element: one R command is sent,
\* or the iterator is exhausted and the command's loop ends
ReadNext ==
    /\ pc = "read_next"
    /\ IF segment_number < NumSegments(Request)
       THEN \E o \in SendOutcomes :
              IF o = "Ok"
              THEN /\ \E n \in 0..budget :
                        \E reply \in Replies(ReadCommand(Request, segment_number),
                                             expected_payload, n) :
                           send(ReadCommand(Request, segment_number), n, reply)
                   /\ Goto("receive", "R", <<>>,
                           2 + SegmentSize(Request, segment_number) * 2)
                   /\ UNCHANGED result
              ELSE /\ Return(Err(o, <<>>))
                   /\ budget' = budget - 1
                   /\ UNCHANGED <<sent, wire, mem, call_start>>
       ELSE /\ Apply
            /\ UNCHANGED <<sent, wire, mem, call_start, budget>>
    /\ UNCHANGED dataVars
    /\ UNCHANGED <<attempt, sync_results, expected_payload, sync_deadline, end_time>>
    /\ UNCHANGED <<now, waited, port_timeout, last_line, consumed, env, receive_results>>

\* main.rs:314: offset.wrapping_add(read_chunk.offset)
ChunkOffset(chunk) == (cmd.offset + chunk.offset) % U16

\* main.rs:249-251 and main.rs:313-323: the loop body for one chunk
ChunkYielded(chunk) ==
    IF cmd.name = "read"
    THEN /\ Goto("read_next", ctx, buffer, limit)
         /\ segment_number' = segment_number + 1
         /\ chunks' = Append(chunks, chunk)
         /\ UNCHANGED result
    ELSE IF ChunkOffset(chunk) + Len(chunk.data) > Len(cmd.data)
    THEN /\ Return(Err("Panic", <<>>))
         /\ UNCHANGED <<segment_number, chunks>>
    ELSE IF chunk.data # SubSeq(cmd.data, ChunkOffset(chunk) + 1,
                                ChunkOffset(chunk) + Len(chunk.data))
    THEN /\ Return(Err("VerificationFailed", <<>>))
         /\ UNCHANGED <<segment_number, chunks>>
    ELSE /\ Goto("read_next", ctx, buffer, limit)
         /\ segment_number' = segment_number + 1
         /\ chunks' = Append(chunks, chunk)
         /\ UNCHANGED result

\* lines 55-59: "({} instead of {})" with response_payload.len() and
\* segment_size * 2, a product of two u8: where it passes 255 the release
\* build wraps it (and the build with overflow checks panics, see below)
LengthMessage(got, segment_size) ==
    ToDecimal(got) \o <<" ", "i", "n", "s", "t", "e", "a", "d", " ", "o", "f", " ">>
    \o ToDecimal((segment_size * 2) % U8)

\* lines 43-73: receive() returned r for the R command of segment_number
ReadResponse(r) ==
    /\ UNCHANGED <<cmd, address, written, phase, attempt, sync_results>>
    /\ IF ~r.ok
       THEN Return(r) /\ UNCHANGED <<segment_number, chunks>>
       ELSE IF Head(r.msg) # "R"
       THEN Return(Err("UnexpectedResponse", r.msg))
            /\ UNCHANGED <<segment_number, chunks>>
       ELSE IF Len(Tail(r.msg)) # 2 * SegmentSize(Request, segment_number)
       THEN /\ \/ Return(Err("UnexpectedLength",
                       LengthMessage(Len(Tail(r.msg)),
                                     SegmentSize(Request, segment_number))))
               \/ /\ SegmentSize(Request, segment_number) * 2 >= U8
                  /\ Return(Err("Panic", <<>>))
            /\ UNCHANGED <<segment_number, chunks>>
       ELSE IF \E i \in DOMAIN DecodePayload(Tail(r.msg)) :
                   DecodePayload(Tail(r.msg))[i] = -1
       THEN Return(Err("Decode", r.msg))
            /\ UNCHANGED <<segment_number, chunks>>
       ELSE ChunkYielded(
               [offset |-> SegmentStartAddress(Request, segment_number),
                data |-> DecodePayload(Tail(r.msg)),
                response |-> r.msg])

----------------------------------------------------------------------------
(* data_ops.rs:82-114  write_data, and main.rs:264-302 around it           *)

\* main.rs:285: (offset as usize) + data.len() > device.memory_size()
WriteTooLarge(offset, data) == offset + Len(data) > MemorySize

\* line 88 with the rest of the data taken as one sub-chunk
SubChunk_Whole == SubSeq(cmd.data, written + 1, Len(cmd.data))

\* line 88: the next sub-chunk of data.chunks(buffer_size)
SubChunk ==
    SubSeq(cmd.data, written + 1, Min(written + cmd.buffer_size, Len(cmd.data)))

\* line 89: address.wrapping_add(sub_chunk.len() as u16)
EndAddress == (address + Len(SubChunk)) % U16

\* lines 90-96: "W{:04X}", then "{:02X}" per byte, then "\n"
WriteCommand == <<"W">> \o Hex(address, 4) \o HexBytes(SubChunk) \o <<NL>>

\* line 100: format!("W{:04X}{:04X}", address, end_address)
ExpectedWriteResponse == <<"W">> \o Hex(address, 4) \o Hex(EndAddress, 4)

\* main.rs:264-300: the Data Write command up to the first W command
MainWrite ==
    /\ pc = "main"
    /\ cmd.name = "write"
    /\ IF cmd.buffer_size = 0
       THEN Return(Err("IllegalBufferSize", <<>>))
            /\ UNCHANGED <<address, written, phase>>
       ELSE IF cmd.verification_read_buffer_size = 0
       THEN Return(Err("IllegalVerificationBufferSize", <<>>))
            /\ UNCHANGED <<address, written, phase>>
       ELSE IF cmd.data = <<>>
       THEN Return(Ok) /\ UNCHANGED <<address, written, phase>>
       ELSE IF WriteTooLarge(cmd.offset, cmd.data)
       THEN Return(Err("OutOfRange", <<>>))
            /\ UNCHANGED <<address, written, phase>>
       ELSE /\ Goto("write_next", ctx, buffer, limit)
            /\ address' = cmd.offset
            /\ written' = 0
            /\ phase' = "write"
            /\ UNCHANGED result
    /\ UNCHANGED <<cmd, segment_number, chunks>>
    /\ UNCHANGED <<attempt, sync_results, expected_payload, sync_deadline, end_time>>
    /\ UNCHANGED <<wire, sent, now, waited, port_timeout, last_line, consumed,
                   budget, env, mem, call_start, receive_results>>

\* lines 88-99: the next sub-chunk is sent; or, all sub-chunks written,
\* write_data returns and main.rs:302-312 starts the verification pass
WriteNext ==
    /\ pc = "write_next"
    /\ IF written < Len(cmd.data)
       THEN /\ \E o \in SendOutcomes :
                 IF o = "Ok"
                 THEN /\ \E n \in 0..budget :
                           \E reply \in Replies(WriteCommand, expected_payload, n) :
                              send(WriteCommand, n, reply)
                      /\ Goto("receive", "W", <<>>, WriteLimit)
                      /\ UNCHANGED result
                 ELSE /\ Return(Err(o, <<>>))
                      /\ budget' = budget - 1
                      /\ UNCHANGED <<sent, wire, mem, call_start>>
            /\ UNCHANGED <<segment_number, chunks, phase>>
       ELSE /\ IF cmd.verify
               THEN ReadDataCall /\ phase' = "verify"
               ELSE Apply /\ UNCHANGED <<segment_number, chunks, phase>>
            /\ UNCHANGED <<sent, wire, mem, call_start, budget>>
    /\ UNCHANGED <<cmd, address, written>>
    /\ UNCHANGED <<attempt, sync_results, expected_payload, sync_deadline, end_time>>
    /\ UNCHANGED <<now, waited, port_timeout, last_line, consumed, env, receive_results>>

\* lines 99-110 with only the start address of the response compared
WriteResponse_StartOnly(r) ==
    /\ UNCHANGED <<cmd, segment_number, chunks, phase, attempt, sync_results>>
    /\ IF ~r.ok
       THEN Return(r) /\ UNCHANGED <<address, written>>
       ELSE IF ~StartsWith(r.msg, SubSeq(ExpectedWriteResponse, 1, 5))
       THEN Return(Err("UnexpectedResponse", r.msg))
            /\ UNCHANGED <<address, written>>
       ELSE /\ Goto("write_next", ctx, buffer, limit)
            /\ address' = EndAddress
            /\ written' = written + Len(SubChunk)
            /\ UNCHANGED result

\* lines 99-110: receive(16) returned r for the W command
WriteResponse(r) ==
    /\ UNCHANGED <<cmd, segment_number, chunks, phase, attempt, sync_results>>
    /\ IF ~r.ok
       THEN Return(r) /\ UNCHANGED <<address, written>>
       ELSE IF r.msg # ExpectedWriteResponse
       THEN Return(Err("UnexpectedResponse", r.msg))
            /\ UNCHANGED <<address, written>>
       ELSE /\ Goto("write_next", ctx, buffer, limit)
            /\ address' = EndAddress
            /\ written' = written + Len(SubChunk)
            /\ UNCHANGED result

----------------------------------------------------------------------------
(* device.rs:112-134  Device::receive                                      *)

\* receive() returns r to the code that sent command ctx; the history keeps
\* r with the limit, the wire as it was offered to this call, the number of
\* lines the call completed, the command it follows, how many commands had
\* been written and the clock
ReceiveReturns(r) ==
    /\ receive_results' = Append(receive_results,
           [res |-> r, limit |-> limit, stream |-> call_start.stream,
            lines |-> consumed' - call_start.consumed,
            command |-> sent[Len(sent)], n |-> Len(sent), at |-> now])
    /\ CASE ctx = "V" -> CheckVersion(r)
         [] ctx = "R" -> ReadResponse(r)
         [] ctx = "E" -> EnableResponse(r)
         [] ctx = "T" -> TestResponse(r)
         [] OTHER -> WriteResponse(r)

\* lines 124-127 without the trim
DeviceErrorMessage_NoTrim(line) == Tail(line)

\* lines 124-127: the text of the error, String::from_utf8_lossy(..).trim()
DeviceErrorMessage(line) == Trim(Tail(line))

\* lines 118-132: classify the completed line by its first byte
ReceiveLine ==
    IF buffer = <<>>
    THEN /\ Goto(pc, ctx, buffer, limit)
         /\ UNCHANGED <<attempt, sync_results, result, receive_results>>
         /\ UNCHANGED dataVars
    ELSE IF Head(buffer) = "#"
    THEN /\ Goto(pc, ctx, <<>>, limit)
         /\ UNCHANGED <<attempt, sync_results, result, receive_results>>
         /\ UNCHANGED dataVars
    ELSE IF Head(buffer) = "!"
    THEN ReceiveReturns(Err("DeviceError", DeviceErrorMessage(buffer)))
    ELSE ReceiveReturns([ok |-> TRUE, kind |-> "Ok", msg |-> buffer])

----------------------------------------------------------------------------
(* device.rs:89-110  Device::receive_line_raw, one loop iteration per step *)

Reading == pc \in {"sync", "receive"}

\* receive_line_raw returns Err(e): the `?` of its caller passes it on
RawErr(e) ==
    IF pc = "sync"
    THEN SyncReturns(e) /\ UNCHANGED receive_results
    ELSE ReceiveReturns(e)

\* receive_line_raw returns Ok(()): back in the caller's loop
RawOk ==
    IF pc = "sync"
    THEN SyncLine /\ UNCHANGED receive_results
    ELSE ReceiveLine

\* what a step of receive_line_raw leaves alone besides the port
rawFrame ==
    <<sent, budget, env, mem, call_start, expected_payload, sync_deadline, end_time>>

\* what a step that stays inside receive_line_raw leaves alone
loopFrame == <<pc, ctx, limit, result, attempt, sync_results, receive_results>>

\* line 93 with >= for >
OverLimit_Off(buf, lim) == Len(buf) >= lim

\* line 93: buffer.len() > limit
OverLimit(buf, lim) == Len(buf) > lim

\* lines 93-95: the buffer has outgrown the limit
LineTooLong ==
    /\ Reading
    /\ OverLimit(buffer, limit)
    /\ UNCHANGED <<wire, now, waited, port_timeout, last_line, consumed>>
    /\ RawErr(Err("LineTooLong", <<>>))
    /\ UNCHANGED rawFrame

\* lines 97-108: a byte other than the terminator (or a read of 0 bytes)
ReadChar ==
    /\ Reading
    /\ ~OverLimit(buffer, limit)
    /\ waited < port_timeout
    /\ wire # <<>>
    /\ Head(wire) \notin {NL, WAIT, IOERR}
    /\ wire' = Tail(wire)
    /\ buffer' = IF Head(wire) = ZERO THEN buffer ELSE Append(buffer, Head(wire))
    /\ waited' = 0
    /\ port_timeout' = Timeout
    /\ UNCHANGED <<now, last_line, consumed>>
    /\ UNCHANGED loopFrame
    /\ UNCHANGED rawFrame
    /\ UNCHANGED dataVars

\* lines 97-100: the terminator; the line is handed to the caller
ReadNewline ==
    /\ Reading
    /\ ~OverLimit(buffer, limit)
    /\ waited < port_timeout
    /\ wire # <<>>
    /\ Head(wire) = NL
    /\ wire' = Tail(wire)
    /\ waited' = 0
    /\ last_line' = buffer
    /\ consumed' = consumed + 1
    /\ RawOk
    /\ UNCHANGED <<now, port_timeout>>
    /\ UNCHANGED rawFrame

\* port.read is blocked and the line stays silent for one more tick
Elapse ==
    /\ Reading
    /\ ~OverLimit(buffer, limit)
    /\ waited < port_timeout
    /\ IF wire = <<>> THEN TRUE ELSE Head(wire) = WAIT
    /\ wire' = IF wire = <<>> THEN wire ELSE Tail(wire)
    /\ now' = now + 1
    /\ waited' = waited + 1
    /\ UNCHANGED <<buffer, port_timeout, last_line, consumed>>
    /\ UNCHANGED loopFrame
    /\ UNCHANGED rawFrame
    /\ UNCHANGED dataVars

\* line 97: port.read fails with ErrorKind::TimedOut
ReadTimedOut ==
    /\ Reading
    /\ ~OverLimit(buffer, limit)
    /\ waited = port_timeout
    /\ waited' = 0
    /\ UNCHANGED <<wire, now, port_timeout, last_line, consumed>>
    /\ RawErr(Err("ReadTimedOut", <<>>))
    /\ UNCHANGED rawFrame

\* line 97: port.read fails with another I/O error
ReadIoError ==
    /\ Reading
    /\ ~OverLimit(buffer, limit)
    /\ waited < port_timeout
    /\ wire # <<>>
    /\ Head(wire) = IOERR
    /\ wire' = Tail(wire)
    /\ waited' = 0
    /\ UNCHANGED <<now, port_timeout, last_line, consumed>>
    /\ RawErr(Err("ReadIo", <<>>))
    /\ UNCHANGED rawFrame

----------------------------------------------------------------------------
(* The session check: Device::new followed by check().                     *)

InitCheck ==
    /\ pc = "sync_begin"
    /\ ctx = "none"
    /\ wire \in StaleBytes
    /\ sent = <<>>
    /\ buffer = <<>>
    /\ limit = 0
    /\ now = StartTime
    /\ waited = 0
    /\ port_timeout = InitialTimeout
    /\ attempt = 1
    /\ expected_payload = <<>>
    /\ sync_deadline = 0
    /\ end_time = 0
    /\ sync_results = <<>>
    /\ last_line = <<>>
    /\ call_start = [stream |-> wire, consumed |-> 0]
    /\ receive_results = <<>>
    /\ consumed = 0
    /\ budget = MaxJunk
    /\ env = "scripted"
    /\ mem = <<>>
    /\ cmd = [name |-> "check", no_external_control |-> TRUE]
    /\ segment_number = 0
    /\ chunks = <<>>
    /\ address = 0
    /\ written = 0
    /\ phase = "none"
    /\ result = Running

NextCheck ==
    \/ SyncSend
    \/ SendV
    \/ LineTooLong
    \/ ReadChar
    \/ ReadNewline
    \/ Elapse
    \/ ReadTimedOut
    \/ ReadIoError

SpecCheck == InitCheck /\ [][NextCheck]_vars

----------------------------------------------------------------------------
(* The version query of check() alone: the handshake has just succeeded    *)
(* (the ping was answered at once) and line 183 is about to send V.        *)

InitVersion ==
    /\ pc = "check_V"
    /\ ctx = "none"
    /\ wire = <<>>
    /\ sent = << <<NL, "P">> \o ToDecimal(StartTime) \o <<NL>> >>
    /\ buffer = <<"p">> \o ToDecimal(StartTime)
    /\ limit = SyncLineLimit
    /\ now = StartTime
    /\ waited = 0
    /\ port_timeout = Timeout
    /\ attempt = 1
    /\ expected_payload = ToDecimal(StartTime)
    /\ sync_deadline = StartTime + SyncTimeout
    /\ end_time = 0
    /\ sync_results =
         << [res |-> Ok, at |-> StartTime, deadline |-> StartTime + SyncTimeout,
             line |-> <<"p">> \o ToDecimal(StartTime),
             ping |-> <<NL, "P">> \o ToDecimal(StartTime) \o <<NL>>,
             n |-> 1] >>
    /\ last_line = <<"p">> \o ToDecimal(StartTime)
    /\ call_start = [stream |-> Pong(ToDecimal(StartTime)), consumed |-> 0]
    /\ receive_results = <<>>
    /\ consumed = 1
    /\ budget = MaxJunk
    /\ env = "scripted"
    /\ mem = <<>>
    /\ cmd = [name |-> "check", no_external_control |-> TRUE]
    /\ segment_number = 0
    /\ chunks = <<>>
    /\ address = 0
    /\ written = 0
    /\ phase = "none"
    /\ result = Running

NextVersion ==
    \/ SendV
    \/ LineTooLong
    \/ ReadChar
    \/ ReadNewline
    \/ Elapse
    \/ ReadTimedOut
    \/ ReadIoError

SpecVersion == InitVersion /\ [][NextVersion]_vars

----------------------------------------------------------------------------
(* The data commands of main.rs, started on a session that detect_device   *)
(* has checked: the ping was answered at once and the version accepted.    *)

Bytes == {15, 165}

DataSeqs == UNION {[1..n -> Bytes] : n \in 0..MaxData}

Offsets == {0, 1, 32768, 65534}

\* segment sizes whose double does not fit a u8
BigBufs == {128, 255}

\* reads of one segment of such a size
BigReads ==
    { [name |-> "read", offset |-> 0, size |-> b, buffer_size |-> b,
       no_external_control |-> TRUE] : b \in BigBufs }

\* the Data Read commands tried: every small one, the whole memory read byte
\* by byte, and one large segment
ReadCommands ==
    { [name |-> "read", offset |-> o, size |-> sz, buffer_size |-> b,
       no_external_control |-> x] :
        o \in Offsets, sz \in 0..MaxSize, b \in 0..MaxBuf, x \in BOOLEAN }
    \cup { [name |-> "read", offset |-> o, size |-> MemorySize, buffer_size |-> 1,
            no_external_control |-> FALSE] : o \in {0, 1} }
    \cup BigReads

WriteCommands ==
    { [name |-> "write", offset |-> o, data |-> d, buffer_size |-> b,
       verify |-> v, verification_read_buffer_size |-> vb,
       no_external_control |-> ~v] :
        o \in Offsets, d \in DataSeqs, b \in 0..2, v \in BOOLEAN, vb \in 0..2 }

\* the commands run against a device whose responses may be spoiled
SmallCommands ==
    {c \in ReadCommands : c.size <= 2}
    \cup {c \in WriteCommands : Len(c.data) <= 2 /\ ~c.verify}
    \cup BigReads

CheckedSession ==
    /\ ctx = "V"
    /\ wire = <<>>
    /\ sent = << <<NL, "P">> \o ToDecimal(StartTime) \o <<NL>>, <<"V", NL>> >>
    /\ buffer = <<"V", "R", "O", "M", "E", "1">>
    /\ limit = VersionLimit
    /\ now = StartTime
    /\ waited = 0
    /\ port_timeout = Timeout
    /\ attempt = 1
    /\ expected_payload = ToDecimal(StartTime)
    /\ sync_deadline = StartTime + SyncTimeout
    /\ end_time = 0
    /\ sync_results =
         << [res |-> Ok, at |-> StartTime, deadline |-> StartTime + SyncTimeout,
             line |-> <<"p">> \o ToDecimal(StartTime),
             ping |-> <<NL, "P">> \o ToDecimal(StartTime) \o <<NL>>,
             n |-> 1] >>
    /\ last_line = <<"V", "R", "O", "M", "E", "1">>
    /\ call_start = [stream |-> <<"V", "R", "O", "M", "E", "1", NL>>,
                     consumed |-> 1]
    /\ receive_results =
         << [res |-> [ok |-> TRUE, kind |-> "Ok",
                      msg |-> <<"V", "R", "O", "M", "E", "1">>],
             limit |-> VersionLimit,
             stream |-> <<"V", "R", "O", "M", "E", "1", NL>>, lines |-> 1,
             command |-> <<"V", NL>>, n |-> 2, at |-> StartTime] >>
    /\ consumed = 2
    /\ mem = <<>>

InitData ==
    /\ CheckedSession
    /\ pc = "main"
    /\ budget = 0
    /\ env \in {"faithful", "corrupt", "lossy"}
    /\ cmd \in CASE env = "faithful" -> ReadCommands \cup WriteCommands
               [] env = "corrupt" -> SmallCommands
               [] OTHER -> {c \in WriteCommands : c.verify}
    /\ segment_number = 0
    /\ chunks = <<>>
    /\ address = 0
    /\ written = 0
    /\ phase = "none"
    /\ result = Running

NextData ==
    \/ MainRead
    \/ MainWrite
    \/ ReadNext
    \/ WriteNext
    \/ SendE
    \/ LineTooLong
    \/ ReadChar
    \/ ReadNewline

SpecData == InitData /\ [][NextData]_vars

----------------------------------------------------------------------------
(* Two commands on one handle: a command runs against a device whose       *)
(* response may be spoiled; when it has failed, the caller runs it again   *)
(* on the same Device and this time the device answers correctly.          *)

\* the commands of SmallCommands that main.rs passes on to read_data or
\* write_data
SessionCommands ==
    {c \in SmallCommands :
        /\ c.buffer_size \in 1..MaxBuf
        /\ c.offset \in {0, 65534}
        /\ IF c.name = "read" THEN c.size >= 1
           ELSE c.data # <<>> /\ c.verification_read_buffer_size = 1}

InitSession ==
    /\ CheckedSession
    /\ pc = "main"
    /\ budget = 0
    /\ env = "corrupt"
    /\ cmd \in SessionCommands
    /\ segment_number = 0
    /\ chunks = <<>>
    /\ address = 0
    /\ written = 0
    /\ phase = "none"
    /\ result = Running

\* the failed command is issued again on the same handle
Again ==
    /\ pc = "done"
    /\ ~result.ok
    /\ env = "corrupt"
    /\ env' = "faithful"
    /\ pc' = "main"
    /\ result' = Running
    /\ segment_number' = 0
    /\ chunks' = <<>>
    /\ address' = 0
    /\ written' = 0
    /\ phase' = "none"
    /\ UNCHANGED <<ctx, wire, sent, buffer, limit, now, waited, port_timeout,
                   attempt, expected_payload, sync_deadline, end_time,
                   sync_results, last_line, call_start, receive_results,
                   consumed, budget, mem, cmd>>

NextSession ==
    \/ NextData
    \/ Again

SpecSession == InitSession /\ [][NextSession]_vars

----------------------------------------------------------------------------
(* The Test command on a checked session, with out-of-band lines, pauses   *)
(* and link faults.                                                        *)

\* the Test commands tried: no time to wait at all, a deadline that falls
\* on a read timeout, one that falls between two, and the longest, with and
\* without external control enabled afterwards
TestCommands ==
    { [name |-> "test", test_timeout |-> d, no_external_control |-> TRUE] :
        d \in {0, 2, 3, MaxTestTimeout} }
    \cup { [name |-> "test", test_timeout |-> 3, no_external_control |-> FALSE] }

InitTest ==
    /\ CheckedSession
    /\ pc = "main"
    /\ budget = MaxJunk
    /\ env = "scripted"
    /\ cmd \in TestCommands
    /\ segment_number = 0
    /\ chunks = <<>>
    /\ address = 0
    /\ written = 0
    /\ phase = "none"
    /\ result = Running

NextTest ==
    \/ MainTest
    \/ SendE
    \/ LineTooLong
    \/ ReadChar
    \/ ReadNewline
    \/ Elapse
    \/ ReadTimedOut
    \/ ReadIoError

SpecTest == InitTest /\ [][NextTest]_vars

----------------------------------------------------------------------------
(* Claims about check() and sync(), checked under SpecCheck.               *)

Last(s) == s[Len(s)]

\* the indices in `sent` of the commands starting with byte c
SentWith(c) == {i \in DOMAIN sent : Head(sent[i]) = c}

\* the token a ping carries: the bytes between "\nP" and the terminator
TokenOf(ping) == SubSeq(ping, 3, Len(ping) - 1)

\* the handshake of check() is over and it failed: the last sync() failed and
\* check() does not retry it
HandshakeFailed ==
    /\ sync_results # <<>>
    /\ ~Last(sync_results).res.ok
    /\ Len(sync_results) = 2 \/ ~is_timeout(Last(sync_results).res)

\* C3: check() sends V only after the handshake succeeded; when the handshake
\* fails (sync deadline passed, line too long, ...) check() returns that
\* failure and no V is on the wire.
C3_VersionOnlyAfterSync ==
    HandshakeFailed =>
        /\ SentWith("V") = {}
        /\ pc = "done"
        /\ result = Last(sync_results).res

\* C6: sync() returns Ok only on a line that is 'p' followed by exactly the
\* token of the ping this call sent.
C6_SyncOnlyOnOwnToken ==
    \A i \in DOMAIN sync_results :
        sync_results[i].res.ok =>
            /\ sync_results[i].ping # <<>>
            /\ sync_results[i].line = <<"p">> \o TokenOf(sync_results[i].ping)

\* a second handshake succeeded after other lines had been read and dropped
C6_Witness ==
    /\ Len(sync_results) = 2
    /\ sync_results[2].res.ok
    /\ consumed >= 3

\* C7: before its deadline the handshake is never ended by a line it read:
\* whatever the line's length or first byte, it is dropped.
C7_NoLineEndsSync ==
    \A i \in DOMAIN sync_results :
        sync_results[i].res.kind \in {"LineTooLong", "SyncTimeout"} =>
            sync_results[i].at > sync_results[i].deadline

----------------------------------------------------------------------------
(* Claims about receive(): C9 under SpecVersion, C10 under SpecCheck.      *)

\* the lines of the longest stretch of `stream` that holds bytes only
RECURSIVE SplitLines(_, _)
SplitLines(stream, cur) ==
    IF stream = <<>> \/ ~IsByte(Head(stream)) THEN <<>>
    ELSE IF Head(stream) = NL
    THEN <<cur>> \o SplitLines(Tail(stream), <<>>)
    ELSE SplitLines(Tail(stream), Append(cur, Head(stream)))

\* the complete lines of `stream`, silence and empty reads left out, up to
\* the point where the link breaks
RECURSIVE StreamLines(_, _)
StreamLines(stream, cur) ==
    IF stream = <<>> \/ Head(stream) = IOERR THEN <<>>
    ELSE IF Head(stream) = NL
    THEN <<cur>> \o StreamLines(Tail(stream), <<>>)
    ELSE IF Head(stream) \in {WAIT, ZERO}
    THEN StreamLines(Tail(stream), cur)
    ELSE StreamLines(Tail(stream), Append(cur, Head(stream)))

OutOfBand(line) == line = <<>> \/ Head(line) = "#"

\* C9: debug lines of any length and empty lines ahead of a response line
\* of at most `limit` bytes do not change what receive(limit) returns: it
\* returns that response line.
C9_DebugLinesTransparent ==
    \A i \in DOMAIN receive_results :
        LET e == receive_results[i]
            ls == SplitLines(e.stream, <<>>)
        IN  \A k \in DOMAIN ls :
               ( /\ \A m \in 1..(k - 1) : OutOfBand(ls[m])
                 /\ ~OutOfBand(ls[k])
                 /\ Head(ls[k]) # "!"
                 /\ Len(ls[k]) <= e.limit )
               => (e.res.ok /\ e.res.msg = ls[k])

\* C10: a line receive() returns is a whole line of the stream, not empty,
\* not starting with '#' or '!', and only out-of-band lines precede it; a
\* device error is raised by the first line starting with '!', carries the
\* trimmed rest of that line, and no line after it has been consumed.
C10_ReceiveClassifies ==
    \A i \in DOMAIN receive_results :
        LET e == receive_results[i]
            ls == StreamLines(e.stream, <<>>)
        IN  /\ e.res.ok =>
                /\ e.lines \in DOMAIN ls
                /\ e.res.msg = ls[e.lines]
                /\ e.res.msg # <<>>
                /\ Head(e.res.msg) \notin {"#", "!"}
                /\ \A m \in 1..(e.lines - 1) : OutOfBand(ls[m])
            /\ e.res.kind = "DeviceError" =>
                /\ e.lines \in DOMAIN ls
                /\ ls[e.lines] # <<>>
                /\ Head(ls[e.lines]) = "!"
                /\ e.res.msg = Trim(Tail(ls[e.lines]))
                /\ \A m \in 1..(e.lines - 1) : OutOfBand(ls[m])
                /\ (pc = "done" /\ i = Len(receive_results)) =>
                       consumed = call_start.consumed + e.lines

\* receive() raised a device error after it had dropped a line, and the text
\* it carries is shorter than the rest of the line
C10_Witness ==
    \E i \in DOMAIN receive_results :
        /\ receive_results[i].res.kind = "DeviceError"
        /\ receive_results[i].lines >= 2
        /\ receive_results[i].res.msg = <<"e">>

----------------------------------------------------------------------------
(* Claims about the data commands, checked under SpecData.                 *)

CeilDiv(a, b) == (a + b - 1) \div b

ValidRead ==
    /\ cmd.name = "read"
    /\ cmd.size >= 1
    /\ cmd.buffer_size \in 1..255
    /\ cmd.offset + cmd.size <= MemorySize

ValidWrite ==
    /\ cmd.name = "write"
    /\ cmd.data # <<>>
    /\ cmd.buffer_size \in 1..255
    /\ cmd.verification_read_buffer_size \in 1..255
    /\ cmd.offset + Len(cmd.data) <= MemorySize

\* C1: a valid read, consumed to the end against a device that answers
\* every R correctly, yields ceil(size / segment_size) chunks that tile
\* [offset, offset + size): chunk k starts at offset + (k-1) * segment_size
\* and all but the last hold segment_size bytes.
C1_ReadTiles ==
    (env = "faithful" /\ ValidRead) =>
        /\ \A k \in DOMAIN chunks :
              /\ chunks[k].offset = cmd.offset + (k - 1) * cmd.buffer_size
              /\ Len(chunks[k].data) =
                    Min(cmd.buffer_size, cmd.size - (k - 1) * cmd.buffer_size)
              /\ \A j \in DOMAIN chunks[k].data :
                    chunks[k].data[j] = (chunks[k].offset + j - 1) % U8
        /\ pc = "done" =>
              /\ result.ok
              /\ Len(chunks) = CeilDiv(cmd.size, cmd.buffer_size)

\* C2: writing D at any offset O to a device that stores faithfully and then
\* verifying, with any two segment sizes, is accepted.
C2_RoundTrip ==
    (env = "faithful" /\ ValidWrite /\ cmd.verify /\ pc = "done") => result.ok

WellFormedPayload(response) ==
    /\ response # <<>>
    /\ Head(response) = "R"
    /\ Len(response) % 2 = 1
    /\ \A i \in 2..Len(response) : IsHexDigit(response[i])

\* C4: a response whose payload has a wrong length or holds a byte that is
\* no hex digit never becomes a data chunk.
C4_CorruptPayloadRejected ==
    \A k \in DOMAIN chunks :
        /\ WellFormedPayload(chunks[k].response)
        /\ Len(chunks[k].response) = 1 + 2 * Len(chunks[k].data)

OutOfRangeCommand ==
    \/ /\ cmd.name = "read"
       /\ cmd.size >= 1
       /\ cmd.buffer_size >= 1
       /\ cmd.offset + cmd.size > MemorySize
    \/ /\ cmd.name = "write"
       /\ cmd.buffer_size >= 1
       /\ cmd.verification_read_buffer_size >= 1
       /\ cmd.offset + Len(cmd.data) > MemorySize

\* C5: a read or write that would pass the end of the address space fails
\* with the out-of-range error, write_data is never entered, and no R or W
\* command is sent.
C5_OutOfRangeSendsNothing ==
    OutOfRangeCommand =>
        /\ SentWith("R") = {}
        /\ SentWith("W") = {}
        /\ pc \in {"main", "done"}
        /\ pc = "done" => result = Err("OutOfRange", <<>>)

\* an out-of-range read has been refused
C5_Witness ==
    /\ OutOfRangeCommand
    /\ cmd.name = "read"
    /\ pc = "done"
    /\ result.kind = "OutOfRange"

----------------------------------------------------------------------------
(* Claims about write_data, checked under SpecData.                        *)

IsW(c) == Head(c) = "W"
IsR(c) == Head(c) = "R"

\* the W commands written so far, in the order they were written
WCommands == SelectSeq(sent, IsW)

\* write_data has written every sub-chunk and had each acknowledged
WriteDataReturned == phase \in {"write", "verify"} /\ written = Len(cmd.data)

\* C11: against a device that acknowledges every W correctly, write_data
\* sends ceil(n/s) W commands; the k-th (from 0) carries address
\* (O + k*s) mod 2^16 and the bytes D[k*s .. min((k+1)*s, n)); with empty D
\* nothing is sent and the call succeeds.
C11_WriteChunks ==
    /\ (env = "faithful" /\ ValidWrite) =>
          /\ Len(WCommands) <= CeilDiv(Len(cmd.data), cmd.buffer_size)
          /\ \A k \in DOMAIN WCommands :
                /\ HexValue(SubSeq(WCommands[k], 2, 5)) =
                      (cmd.offset + (k - 1) * cmd.buffer_size) % U16
                /\ WritePayload(WCommands[k]) =
                      SubSeq(cmd.data, (k - 1) * cmd.buffer_size + 1,
                             Min(k * cmd.buffer_size, Len(cmd.data)))
                /\ Len(WritePayload(WCommands[k])) <= cmd.buffer_size
                /\ Len(WCommands[k]) = 6 + 2 * Len(WritePayload(WCommands[k]))
                /\ Last(WCommands[k]) = NL
          /\ WriteDataReturned =>
                Len(WCommands) = CeilDiv(Len(cmd.data), cmd.buffer_size)
          /\ (pc = "done" /\ ~cmd.verify) => result.ok
    /\ ( /\ cmd.name = "write"
         /\ cmd.data = <<>>
         /\ cmd.buffer_size >= 1
         /\ cmd.verification_read_buffer_size >= 1 ) =>
          /\ WCommands = <<>>
          /\ pc = "done" => result.ok

\* three bytes were written in sub-chunks of two, up to the last address
C11_Witness ==
    /\ env = "faithful"
    /\ ValidWrite
    /\ Len(cmd.data) = 3
    /\ cmd.buffer_size = 2
    /\ WriteDataReturned
    /\ Len(WCommands) = 2

----------------------------------------------------------------------------
(* Claims about the order of commands and responses, under SpecCheck.      *)

\* the calls that followed the i-th command written and have returned
SyncCallsOf(i) ==
    {j \in DOMAIN sync_results :
        /\ sync_results[j].n = i
        /\ sync_results[j].res.kind \notin {"WriteTimedOut", "WriteIo"}}
ReceiveCallsOf(i) == {j \in DOMAIN receive_results : receive_results[j].n = i}

\* the response line of the i-th command has been consumed
Answered(i) ==
    \/ \E j \in SyncCallsOf(i) : sync_results[j].res.ok
    \/ \E j \in ReceiveCallsOf(i) :
          receive_results[j].res.ok \/ receive_results[j].res.kind = "DeviceError"

\* C12: a command is written only when every command written before it has
\* had its response line consumed.
C12_OneOutstanding == \A i \in 1..(Len(sent) - 1) : Answered(i)


----------------------------------------------------------------------------
(* Claims about a handle after a failed command, under SpecSession.        *)

\* C13: a command that failed on a malformed response or a device error
\* line has consumed that line with its terminator, and the next command on
\* the handle succeeds when the device answers it correctly.
C13_LineBoundaryAfterFailure ==
    /\ (env = "corrupt" /\ pc = "done" /\ ~result.ok) => wire = <<>>
    /\ (env = "faithful" /\ pc = "done") => result.ok

----------------------------------------------------------------------------
(* Claims about the verification pass, under SpecData.                     *)

HasR(e) == IsR(e.command)

\* the receive() calls that read the response to an R command, in order
RCalls == SelectSeq(receive_results, HasR)

\* the bytes a response line R<hex> holds, as the device encoded them
ResponseBytes(line) ==
    [i \in 1..((Len(line) - 1) \div 2) |-> HexValue(SubSeq(line, 2 * i, 2 * i + 1))]

\* the chunk read back by call e differs from what was written there
Mismatch(e) ==
    /\ e.res.ok
    /\ LET a == HexValue(SubSeq(e.command, 2, 5)) - cmd.offset
           bytes == ResponseBytes(e.res.msg)
       IN  bytes # SubSeq(cmd.data, a + 1, a + Len(bytes))

\* C14: the first chunk read back that differs from the data written ends
\* the command with a verification failure, and no R command follows it.
C14_StopsAtFirstMismatch ==
    (ValidWrite /\ cmd.verify /\ env \in {"faithful", "lossy"}) =>
        \A j \in DOMAIN RCalls :
            Mismatch(RCalls[j]) =>
               /\ j = Len(RCalls)
               /\ Len(SelectSeq(sent, IsR)) = j
               /\ pc = "done"
               /\ result.kind = "VerificationFailed"

----------------------------------------------------------------------------
(* Claims about the port timeout, under SpecCheck.                         *)

\* an I/O call on the handle has succeeded: a command was written or a byte
\* was read
IoSucceeded == sent # <<>> \/ consumed > 0 \/ buffer # <<>>

\* C15: once an I/O call has succeeded, every read on the handle runs under
\* the steady-state timeout.
C15_SteadyTimeoutAfterFirstIo ==
    (Reading /\ IoSucceeded) => port_timeout = Timeout

----------------------------------------------------------------------------
(* Claims about the write echo, under SpecData.                            *)

HasW(e) == IsW(e.command)

\* the receive() calls that read the response to a W command, in order
WCalls == SelectSeq(receive_results, HasW)

\* 'W', the start address of `command` and the address after its last byte,
\* each as 4 upper-case hex digits
Echo(command) ==
    LET a == HexValue(SubSeq(command, 2, 5))
    IN  <<"W">> \o Hex(a, 4) \o Hex((a + Len(WritePayload(command))) % U16, 4)

EchoAccepted(e) == e.res.ok /\ e.res.msg = Echo(e.command)

\* C16: write_data returns Ok only when every W command was answered with
\* exactly its echo; the first other response fails the call and no W
\* command follows it.
C16_WriteEchoChecked ==
    cmd.name = "write" =>
        /\ WriteDataReturned => \A j \in DOMAIN WCalls : EchoAccepted(WCalls[j])
        /\ \A j \in DOMAIN WCalls :
              ~EchoAccepted(WCalls[j]) =>
                 /\ j = Len(WCalls)
                 /\ Len(WCommands) = j
                 /\ pc = "done"
                 /\ ~result.ok
                 /\ written < Len(cmd.data)

\* the second of two W commands was answered with something else than its
\* echo, in a line receive() returned
C16_Witness ==
    /\ cmd.name = "write"
    /\ Len(WCalls) = 2
    /\ WCalls[2].res.ok
    /\ ~EchoAccepted(WCalls[2])
    /\ result.kind = "UnexpectedResponse"

----------------------------------------------------------------------------
(* Claims about the read iterator, under SpecData.                         *)

\* the R commands written so far, in the order they were written
RCommands == SelectSeq(sent, IsR)

\* read_data has been called and its iterator is being consumed
Iterating ==
    /\ cmd.name = "read" \/ phase = "verify"
    /\ pc \in {"read_next", "receive"}
    /\ pc = "receive" => ctx = "R"

\* C17: read_data itself sends nothing; each pull sends one R command, for
\* the next segment in address order, and consumes its response before it
\* returns: between pulls as many R commands were sent as elements pulled.
C17_LazySequentialRead ==
    /\ (Iterating /\ pc = "read_next") =>
          /\ Len(RCommands) = segment_number
          /\ Len(RCalls) = segment_number
          /\ wire = <<>>
    /\ (Iterating /\ pc = "receive") =>
          /\ Len(RCommands) = segment_number + 1
          /\ Len(RCalls) = segment_number
    /\ Len(RCommands) <= Len(RCalls) + 1
    /\ \A k \in DOMAIN RCommands :
          /\ HexValue(SubSeq(RCommands[k], 2, 5)) =
                Request.offset + (k - 1) * Request.buffer_size
          /\ HexValue(SubSeq(RCommands[k], 6, 7)) =
                Min(Request.buffer_size,
                    Request.size - (k - 1) * Request.buffer_size)

\* the second pull of a read is waiting for its response
C17_Witness ==
    /\ cmd.name = "read"
    /\ pc = "receive"
    /\ ctx = "R"
    /\ segment_number = 1
    /\ Len(RCommands) = 2
    /\ Len(chunks) = 1

----------------------------------------------------------------------------
(* Claims about the length check of a read response, under SpecData.       *)

\* the segment length an R command asks for
AskedLength(command) == HexValue(SubSeq(command, 6, 7))

\* call e returned a line starting with 'R' whose payload has not twice the
\* length asked for
WrongLength(e) ==
    /\ e.res.ok
    /\ Head(e.res.msg) = "R"
    /\ Len(e.res.msg) - 1 # 2 * AskedLength(e.command)

\* C18: a response starting with 'R' with a payload of the wrong length
\* fails the read with an error that reports the length received and the
\* length expected, twice the segment length, for segment lengths up to 255.
C18_LengthErrorReportsLengths ==
    \A j \in DOMAIN RCalls :
        WrongLength(RCalls[j]) =>
           /\ pc = "done"
           /\ result.kind = "UnexpectedLength"
           /\ result.msg =
                 ToDecimal(Len(RCalls[j].res.msg) - 1)
                 \o <<" ", "i", "n", "s", "t", "e", "a", "d", " ", "o", "f", " ">>
                 \o ToDecimal(2 * AskedLength(RCalls[j].command))

----------------------------------------------------------------------------
(* Claims about receive_line_raw, under SpecCheck.                         *)

\* in this step the raw line read fails with an error of kind k and its
\* caller, sync() or receive(), passes the error on
RawFails(k) ==
    \/ /\ Len(sync_results') = Len(sync_results) + 1
       /\ Last(sync_results').res.kind = k
    \/ /\ Len(receive_results') = Len(receive_results) + 1
       /\ Last(receive_results').res.kind = k

\* in this step the raw line read returns a line
RawReturns == consumed' = consumed + 1

\* C19: the raw line read with limit L returns the bytes before the
\* terminator exactly when the terminator arrives with at most L bytes
\* buffered; it fails with line-too-long as soon as L + 1 bytes are buffered,
\* reading nothing more; it fails with a timeout when a read times out.
C19_RawLineRead ==
    [][ /\ Reading => Len(buffer) <= limit + 1
        /\ RawReturns =>
              /\ wire # <<>>
              /\ Head(wire) = NL
              /\ wire' = Tail(wire)
              /\ Len(buffer) <= limit
              /\ last_line' = buffer
        /\ ( /\ Reading
             /\ wire # <<>>
             /\ Head(wire) = NL
             /\ waited < port_timeout
             /\ Len(buffer) <= limit ) => RawReturns
        /\ RawFails("LineTooLong") => (Len(buffer) = limit + 1 /\ wire' = wire)
        /\ (Reading /\ Len(buffer) = limit + 1) => RawFails("LineTooLong")
        /\ RawFails("ReadTimedOut") => (waited = port_timeout /\ wire' = wire)
        /\ (Reading /\ Len(buffer) <= limit /\ waited = port_timeout) =>
              RawFails("ReadTimedOut")
      ]_vars

\* the read gave up on a line one byte over the limit and left its
\* terminator unread
C19_Witness ==
    /\ pc = "done"
    /\ result.kind = "LineTooLong"
    /\ Len(buffer) = limit + 1
    /\ wire # <<>>
    /\ Head(wire) = NL

----------------------------------------------------------------------------
(* Claims about receive_with_timeout in the self-test, under SpecTest.     *)

HasT(e) == e.command = <<"T", NL>>

\* what each receive() call of receive_with_timeout returned, in order
TCalls == SelectSeq(receive_results, HasT)

\* receive_with_timeout is still in its loop
TestWaiting == pc = "receive" /\ ctx = "T"

\* a read-timeout failure that came back before the deadline
EarlyTimeout(e) == e.res.kind = "ReadTimedOut" /\ e.at < end_time

\* what main.rs makes of the value receive_with_timeout returned, when
\* external control is not enabled afterwards
TestOutcome(r) ==
    IF ~r.ok THEN {r}
    ELSE IF r.msg = <<"T", "O", "K">> THEN {Ok}
    ELSE IF r.msg = <<"T", "F", "A", "I", "L">> THEN {Err("TestFailed", <<>>)}
    ELSE {Err("UnexpectedResponse", r.msg)}

\* C20: receive_with_timeout calls receive() again only after a read timeout
\* that came back before the deadline; whatever else receive() returns, a
\* timeout at or after the deadline included, is returned at once; and T is
\* written once.
C20_RetryOnlyOnTimeout ==
    /\ Cardinality(SentWith("T")) <= 1
    /\ TCalls # <<>> => Cardinality(SentWith("T")) = 1
    /\ \A i \in 1..(Len(TCalls) - 1) : EarlyTimeout(TCalls[i])
    /\ (TestWaiting /\ TCalls # <<>>) => EarlyTimeout(Last(TCalls))
    /\ (~TestWaiting /\ TCalls # <<>>) => ~EarlyTimeout(Last(TCalls))
    /\ ( /\ pc = "done"
         /\ ctx = "T"
         /\ TCalls # <<>>
         /\ Last(TCalls).res.msg = <<"T", "O", "K">> => cmd.no_external_control )
          => result \in TestOutcome(Last(TCalls).res)
    /\ (ctx = "E" /\ TCalls # <<>>) => Last(TCalls).res.msg = <<"T", "O", "K">>

\* the self-test timed out twice before the deadline and again after it, and
\* the last timeout is what the command failed with
C20_Witness ==
    /\ pc = "done"
    /\ ctx = "T"
    /\ Len(TCalls) = 3
    /\ result.kind = "ReadTimedOut"
    /\ Last(TCalls).at >= end_time
    /\ Cardinality(SentWith("T")) = 1

----------------------------------------------------------------------------
(* Claims about the outcome of check(), under SpecCheck.                   *)

\* the data line receive(24) handed to check() carries the version marker
MarkerReceived ==
    /\ receive_results # <<>>
    /\ Last(receive_results).command = <<"V", NL>>
    /\ Last(receive_results).res.ok
    /\ Len(Last(receive_results).res.msg) <= VersionLimit
    /\ StartsWith(Last(receive_results).res.msg, VersionMarker)

\* the last sync() call of check() returned Ok
SyncSucceeded == sync_results # <<>> /\ Last(sync_results).res.ok

\* C21: check() returns Ok if and only if synchronization succeeded and the
\* first data line received after V, at most 24 bytes long, starts with
\* VROME.
C21_CheckIffSyncAndMarker ==
    pc = "done" => (result.ok <=> (SyncSucceeded /\ MarkerReceived))

----------------------------------------------------------------------------
(* Claims about the lines receive() hands out, under SpecTest.             *)

IsData(e) == e \notin {WAIT, ZERO, IOERR}

\* the bytes the device put on the wire, pauses left out
Delivered(stream) == SelectSeq(stream, IsData)

\* `line` is one whole line of the byte stream bs: it starts at the start of
\* the stream or right after a terminator, and a terminator follows it
IsLineOf(line, bs) ==
    \E i \in 0..(Len(bs) - Len(line) - 1) :
        /\ i = 0 \/ bs[i] = NL
        /\ SubSeq(bs, i + 1, i + Len(line)) = line
        /\ bs[i + Len(line) + 1] = NL

\* C22: every line receive() returns, within receive_with_timeout too, is
\* one whole line of what the device sent; a read timeout in the middle of
\* a line does not make the caller see only the rest of it.
C22_LinesComplete ==
    \A i \in DOMAIN receive_results :
        receive_results[i].res.ok =>
            IsLineOf(receive_results[i].res.msg,
                     Delivered(receive_results[i].stream))

============================================================================
